---- MODULE Spec2Model ----
(***************************************************************************)
(* MSCitemsCleaner (src/src/main.rs): the items.txt record codec           *)
(* (generate_entries, save_new_items_file), the tag grammar (get_item_id,  *)
(* tag_set_new_count), the landfill classifier (is_in_landfill) and the    *)
(* group renumbering engine (clean_entries), driven by main.               *)
(*                                                                         *)
(* A Rust String is its UTF-8 byte sequence and a Vec<u8> is a byte        *)
(* sequence: both are sequences of 0..255 here.  Rust indexes from 0, TLA+ *)
(* sequences from 1: an index variable keeps the value it has in the code  *)
(* and buf[i] of the code is written buf[i + 1].                           *)
(***************************************************************************)
EXTENDS Integers, Sequences, FiniteSets, TLC

\* ------------------------------------------------------------------ bounds

\* longest record list drawn from one family of RecordPool for one run
MaxRecords == 3
\* longest record list drawn from the whole of RecordPool for one run
MaxMixedRecords == 2
\* longest record list of the small codec buffers
MaxCodecRecords == 2
\* longest free part of a tag drawn for the tag grammar
MaxTagLen == 4
\* largest new count handed to tag_set_new_count
MaxCount == 11

\* ------------------------------------------------- bytes, strings, vectors

\* main.rs:178 (c >= '0' as u8 && c <= '9' as u8)
IsDigit(c) == c >= 48 /\ c <= 57

\* str::starts_with on UTF-8 bytes (main.rs:185, 277, 373, 402, 412)
StartsWith(s, p) == Len(p) <= Len(s) /\ \A k \in 1..Len(p) : s[k] = p[k]

\* str::ends_with on UTF-8 bytes (main.rs:373)
EndsWith(s, p) == Len(p) <= Len(s) /\ \A k \in 1..Len(p) : s[Len(s) - Len(p) + k] = p[k]

\* Vec::contains / slice::contains (main.rs:276, 287, 401)
Contains(v, x) == \E k \in DOMAIN v : v[k] = x

\* the tail of s from 0-based position i (tag_array[i..tag_array.len()])
From(s, i) == SubSeq(s, i + 1, Len(s))

\* u8 as char pushed on a String (main.rs:75): the char U+0000..U+00FF in UTF-8,
\* one byte below 0x80 and two bytes from 0x80 on
CharUtf8(b) == IF b < 128 THEN <<b>> ELSE <<192 + (b \div 64), 128 + (b % 64)>>

\* main.rs:44-52; the caller has checked that idx + 3 is inside buf
get_u32_le(buf, idx) ==
    buf[idx + 1] + 256 * buf[idx + 2] + 65536 * buf[idx + 3] + 16777216 * buf[idx + 4]

\* main.rs:57-64
mk_u32_le(n) ==
    << n % 256, (n \div 256) % 256, (n \div 65536) % 256, (n \div 16777216) % 256 >>

\* format!("{}", n) of a usize (main.rs:220-224): the decimal text of n
RECURSIVE Decimal(_)
Decimal(n) == IF n < 10 THEN <<48 + n>> ELSE Decimal(n \div 10) \o <<48 + (n % 10)>>

\* str::replace (main.rs:419): every non-overlapping match of a non-empty
\* pattern, left to right
RECURSIVE Replace(_, _, _)
Replace(s, from, to) ==
    IF Len(s) = 0 THEN <<>>
    ELSE IF StartsWith(s, from) THEN to \o Replace(From(s, Len(from)), from, to)
    ELSE <<s[1]>> \o Replace(Tail(s), from, to)

\* the literal "Transform" (main.rs:373)
Transform == <<84,114,97,110,115,102,111,114,109>>

\* the literal "spraycan" (main.rs:185)
spraycan == <<115,112,114,97,121,99,97,110>>

\* main.rs:156
landfill_pos == <<250, 212, 41, 196, 184, 79, 146, 64, 239, 210, 53, 196>>

\* main.rs:241-251
dont_touch_entries ==
    << <<109,105,108,107,120,84,114,97,110,115,102,111,114,109>>,   \* 'milkxTransform'
       <<109,105,108,107,120,67,111,110,100,105,116,105,111,110>>,   \* 'milkxCondition'
       <<115,97,117,115,97,103,101,115,120,48>>,   \* 'sausagesx0'
       <<112,105,122,122,97,120,84,114,97,110,115,102,111,114,109>>,   \* 'pizzaxTransform'
       <<112,105,122,122,97,120,67,111,110,100,105,116,105,111,110>>,   \* 'pizzaxCondition'
       <<98,101,101,114,99,97,115,101,48>>,   \* 'beercase0'
       <<109,97,99,97,114,111,110,32,98,111,120,120,84,114,97,110,115,102,111,114,109>>,   \* 'macaron boxxTransform'
       <<109,97,99,97,114,111,110,32,98,111,120,120,67,111,110,100,105,116,105,111,110>>,   \* 'macaron boxxCondition'
       <<111,105,108,102,105,108,116,101,114,48>> >>   \* 'oilfilter0'

\* main.rs:257-267
blacklist ==
    << <<102,105,114,101,101,120,116,105,110,103,117,105,115,104,101,114>>,   \* 'fireextinguisher'
       <<110,50,111,98,111,116,116,108,101>>,   \* 'n2obottle'
       <<98,97,116,116,101,114,121>>,   \* 'battery'
       <<111,105,108,32,102,105,108,116,101,114,44>>,   \* 'oil filter,'
       <<115,112,97,114,107,32,112,108,117,103>>,   \* 'spark plug'
       <<97,108,116,101,114,110,97,116,111,114,32,98,101,108,116>>,   \* 'alternator belt'
       <<108,105,103,104,116,32,98,117,108,98>>,   \* 'light bulb'
       <<102,117,115,101>>,   \* 'fuse'
       <<114,50,48,32,98,97,116,116,101,114,121>> >>   \* 'r20 battery'

\* main.rs:308-348, the static part of the Group table (tagname, tagid, has_default_zero_item)
Groups ==
    << [tagname |-> <<98,101,101,114,99,97,115,101>>, tagid |-> <<66,101,101,114,67,97,115,101,73,68>>, has_default_zero_item |-> TRUE],   \* 'beercase', 'BeerCaseID'
       [tagname |-> <<115,97,117,115,97,103,101,115,120>>, tagid |-> <<83,97,117,115,97,103,101,115,120,73,68>>, has_default_zero_item |-> TRUE],   \* 'sausagesx', 'SausagesxID'
       [tagname |-> <<109,105,108,107,120>>, tagid |-> <<109,105,108,107,120,73,68>>, has_default_zero_item |-> TRUE],   \* 'milkx', 'milkxID'
       [tagname |-> <<115,117,103,97,114>>, tagid |-> <<115,117,103,97,114,73,68>>, has_default_zero_item |-> FALSE],   \* 'sugar', 'sugarID'
       [tagname |-> <<121,101,97,115,116>>, tagid |-> <<121,101,97,115,116,73,68>>, has_default_zero_item |-> FALSE],   \* 'yeast', 'yeastID'
       [tagname |-> <<112,111,116,97,116,111,99,104,105,112,115>>, tagid |-> <<112,111,116,97,116,111,99,104,105,112,115,73,68>>, has_default_zero_item |-> FALSE],   \* 'potatochips', 'potatochipsID'
       [tagname |-> <<112,105,122,122,97,120>>, tagid |-> <<112,105,122,122,97,120,73,68>>, has_default_zero_item |-> TRUE],   \* 'pizzax', 'pizzaxID'
       [tagname |-> <<109,97,99,97,114,111,110,98,111,120>>, tagid |-> <<109,97,99,97,114,111,110,98,111,120,120,73,68>>, has_default_zero_item |-> FALSE],   \* 'macaronbox', 'macaronboxxID'
       [tagname |-> <<115,104,111,112,112,105,110,103,98,97,103,120>>, tagid |-> <<115,104,111,112,112,105,110,103,98,97,103,120,73,68>>, has_default_zero_item |-> FALSE],   \* 'shoppingbagx', 'shoppingbagxID'
       [tagname |-> <<109,111,111,115,101,109,101,97,116,120>>, tagid |-> <<109,111,111,115,101,109,101,97,116,120,73,68>>, has_default_zero_item |-> FALSE],   \* 'moosemeatx', 'moosemeatxID'
       [tagname |-> <<66,111,111,122,101>>, tagid |-> <<66,111,111,122,101,73,68>>, has_default_zero_item |-> FALSE],   \* 'Booze', 'BoozeID'
       [tagname |-> <<112,105,107,101,120>>, tagid |-> <<112,105,107,101,120,73,68>>, has_default_zero_item |-> FALSE],   \* 'pikex', 'pikexID'
       [tagname |-> <<106,117,105,99,101,99,111,110,99,101,110,116,114,97,116,101>>, tagid |-> <<106,117,105,99,101,99,111,110,99,101,110,116,114,97,116,101,73,68>>, has_default_zero_item |-> FALSE],   \* 'juiceconcentrate', 'juiceconcentrateID'
       [tagname |-> <<109,111,116,111,114,111,105,108>>, tagid |-> <<109,111,116,111,114,111,105,108,73,68>>, has_default_zero_item |-> FALSE],   \* 'motoroil', 'motoroilID'
       [tagname |-> <<98,114,97,107,101,102,108,117,105,100>>, tagid |-> <<98,114,97,107,101,102,108,117,105,100,73,68>>, has_default_zero_item |-> FALSE],   \* 'brakefluid', 'brakefluidID'
       [tagname |-> <<99,111,111,108,97,110,116>>, tagid |-> <<99,111,111,108,97,110,116,73,68>>, has_default_zero_item |-> FALSE],   \* 'coolant', 'coolantID'
       [tagname |-> <<116,119,111,115,116,114,111,107,101>>, tagid |-> <<116,119,111,115,116,114,111,107,101,73,68>>, has_default_zero_item |-> FALSE],   \* 'twostroke', 'twostrokeID'
       [tagname |-> <<99,105,103,97,114,101,116,116,101,115>>, tagid |-> <<99,105,103,97,114,101,116,116,101,115,73,68>>, has_default_zero_item |-> FALSE],   \* 'cigarettes', 'cigarettesID'
       [tagname |-> <<115,112,97,114,107,32,112,108,117,103,32,98,111,120>>, tagid |-> <<115,112,97,114,107,112,108,117,103,98,111,120,73,68>>, has_default_zero_item |-> FALSE],   \* 'spark plug box', 'sparkplugboxID'
       [tagname |-> <<103,114,111,117,110,100,99,111,102,102,101,101>>, tagid |-> <<103,114,111,117,110,100,99,111,102,102,101,101,73,68>>, has_default_zero_item |-> FALSE],   \* 'groundcoffee', 'groundcoffeeID'
       [tagname |-> <<103,114,105,108,108,99,104,97,114,99,111,97,108>>, tagid |-> <<103,114,105,108,108,99,104,97,114,99,111,97,108,73,68>>, has_default_zero_item |-> FALSE],   \* 'grillcharcoal', 'grillcharcoalID'
       [tagname |-> <<108,105,103,104,116,32,98,117,108,98,32,98,111,120>>, tagid |-> <<108,105,103,104,116,98,117,108,98,98,111,120,73,68>>, has_default_zero_item |-> FALSE],   \* 'light bulb box', 'lightbulbboxID'
       [tagname |-> <<102,117,115,101,32,112,97,99,107,97,103,101>>, tagid |-> <<102,117,115,101,112,97,99,107,97,103,101,73,68>>, has_default_zero_item |-> FALSE],   \* 'fuse package', 'fusepackageID'
       [tagname |-> <<114,50,48,32,98,97,116,116,101,114,121,32,98,111,120>>, tagid |-> <<114,50,48,98,97,116,116,101,114,121,98,111,120,73,68>>, has_default_zero_item |-> FALSE],   \* 'r20 battery box', 'r20batteryboxID'
       [tagname |-> <<109,111,115,113,117,105,116,111,115,112,114,97,121>>, tagid |-> <<109,111,115,113,117,105,116,111,115,112,114,97,121,73,68>>, has_default_zero_item |-> FALSE],   \* 'mosquitospray', 'mosquitosprayID'
       [tagname |-> <<115,112,114,97,121,99,97,110,48,49>>, tagid |-> <<83,112,114,97,121,99,97,110,48,49,73,68>>, has_default_zero_item |-> FALSE],   \* 'spraycan01', 'Spraycan01ID'
       [tagname |-> <<115,112,114,97,121,99,97,110,48,50>>, tagid |-> <<83,112,114,97,121,99,97,110,48,50,73,68>>, has_default_zero_item |-> FALSE],   \* 'spraycan02', 'Spraycan02ID'
       [tagname |-> <<115,112,114,97,121,99,97,110,48,51>>, tagid |-> <<83,112,114,97,121,99,97,110,48,51,73,68>>, has_default_zero_item |-> FALSE],   \* 'spraycan03', 'Spraycan03ID'
       [tagname |-> <<115,112,114,97,121,99,97,110,48,52>>, tagid |-> <<83,112,114,97,121,99,97,110,48,52,73,68>>, has_default_zero_item |-> FALSE],   \* 'spraycan04', 'Spraycan04ID'
       [tagname |-> <<115,112,114,97,121,99,97,110,48,53>>, tagid |-> <<83,112,114,97,121,99,97,110,48,53,73,68>>, has_default_zero_item |-> FALSE],   \* 'spraycan05', 'Spraycan05ID'
       [tagname |-> <<115,112,114,97,121,99,97,110,48,54>>, tagid |-> <<83,112,114,97,121,99,97,110,48,54,73,68>>, has_default_zero_item |-> FALSE],   \* 'spraycan06', 'Spraycan06ID'
       [tagname |-> <<115,112,114,97,121,99,97,110,48,55>>, tagid |-> <<83,112,114,97,121,99,97,110,48,55,73,68>>, has_default_zero_item |-> FALSE],   \* 'spraycan07', 'Spraycan07ID'
       [tagname |-> <<115,112,114,97,121,99,97,110,48,56>>, tagid |-> <<83,112,114,97,121,99,97,110,48,56,73,68>>, has_default_zero_item |-> FALSE],   \* 'spraycan08', 'Spraycan08ID'
       [tagname |-> <<115,112,114,97,121,99,97,110,48,57>>, tagid |-> <<83,112,114,97,121,99,97,110,48,57,73,68>>, has_default_zero_item |-> FALSE],   \* 'spraycan09', 'Spraycan09ID'
       [tagname |-> <<115,112,114,97,121,99,97,110,49,48>>, tagid |-> <<83,112,114,97,121,99,97,110,49,48,73,68>>, has_default_zero_item |-> FALSE],   \* 'spraycan10', 'Spraycan10ID'
       [tagname |-> <<115,112,114,97,121,99,97,110,49,49>>, tagid |-> <<83,112,114,97,121,99,97,110,49,49,73,68>>, has_default_zero_item |-> FALSE],   \* 'spraycan11', 'Spraycan11ID'
       [tagname |-> <<115,112,114,97,121,99,97,110,49,50>>, tagid |-> <<83,112,114,97,121,99,97,110,49,50,73,68>>, has_default_zero_item |-> FALSE],   \* 'spraycan12', 'Spraycan12ID'
       [tagname |-> <<115,112,114,97,121,99,97,110,49,51>>, tagid |-> <<83,112,114,97,121,99,97,110,49,51,73,68>>, has_default_zero_item |-> FALSE] >>   \* 'spraycan13', 'Spraycan13ID'

\* ------------------------------------------------------------- tag grammar

\* main.rs:175-194, the loop of get_item_id from byte i on
RECURSIVE get_item_id_loop(_, _, _)
get_item_id_loop(tag, i, numbers_count) ==
    IF i >= Len(tag) THEN tag
    ELSE LET c == tag[i + 1] IN
         IF numbers_count = 0
         THEN get_item_id_loop(tag, i + 1, IF IsDigit(c) THEN 1 ELSE 0)
         ELSE IF ~IsDigit(c) \/ (StartsWith(tag, spraycan) /\ numbers_count >= 2)
              THEN SubSeq(tag, 1, i)
              ELSE get_item_id_loop(tag, i + 1, numbers_count + 1)

\* get_item_id with the slice ending one byte early (tag_array[0..i - 1])
get_item_id_short(tag) ==
    LET id == get_item_id_loop(tag, 0, 0)
    IN  IF id = tag THEN tag ELSE SubSeq(id, 1, Len(id) - 1)

\* main.rs:172-196
get_item_id(tag) == get_item_id_loop(tag, 0, 0)

\* main.rs:206-218, the loop of tag_set_new_count from byte i on; the result is
\* <<start_num_pos, end_num_pos>>, where 0 also stands for "not set"
RECURSIVE num_pos_loop(_, _, _, _)
num_pos_loop(tag, i, start_num_pos, end_num_pos) ==
    IF i >= Len(tag) THEN <<start_num_pos, end_num_pos>>
    ELSE IF IsDigit(tag[i + 1])
         THEN num_pos_loop(tag, i + 1, IF start_num_pos = 0 THEN i ELSE start_num_pos,
                           end_num_pos)
         ELSE IF start_num_pos > 0 /\ end_num_pos = 0
              THEN num_pos_loop(tag, i + 1, start_num_pos, i)
              ELSE num_pos_loop(tag, i + 1, start_num_pos, end_num_pos)

\* main.rs:202-225, the new value of e.tag
tag_set_new_count(tag, n) ==
    LET p == num_pos_loop(tag, 0, 0, 0)
    IN  SubSeq(tag, 1, p[1]) \o Decimal(n) \o From(tag, p[2])

\* ------------------------------------------------------------ record codec

\* main.rs:71-80, the String read; the caller has checked idx + len <= buf.len()
RECURSIVE get_string(_, _, _)
get_string(buf, idx, len) ==
    IF len = 0 THEN <<>>
    ELSE CharUtf8(buf[idx + 1]) \o get_string(buf, idx + 1, len - 1)

\* how a run of generate_entries ends: outcome "ok" (the loop ran out), "exit"
\* (exit() was called, main.rs:94, 112) or "panic" (an index out of bounds, or
\* data_length - 1 below zero); at is the byte position it ended at, result the
\* entries pushed so far
DecodeEnd(outcome, msg, at, result) ==
    [outcome |-> outcome, msg |-> msg, at |-> at, result |-> result]

\* main.rs:89-117, the loop of generate_entries from byte i on.  data_length = 0
\* makes data_length - 1 overflow: a panic with overflow checks, and without them
\* 0xFFFFFFFF, so that the push loop runs past the end of the buffer and panics.
RECURSIVE generate_entries_loop(_, _, _)
generate_entries_loop(file_contents, i, result) ==
    LET len == Len(file_contents) IN
    IF i >= len THEN DecodeEnd("ok", "", i, result)
    ELSE IF file_contents[i + 1] # 126
    THEN DecodeEnd("exit", "Invalid header symbol", i, result)
    ELSE IF i + 1 >= len THEN DecodeEnd("panic", "tag length", i + 1, result)
    ELSE
    LET tag_length == file_contents[i + 2]
        i_tag == i + 2
        i_len == i_tag + tag_length
        i_data == i_len + 4
    IN  IF i_len > len THEN DecodeEnd("panic", "tag", len, result)
        ELSE IF i_data > len THEN DecodeEnd("panic", "data length", len, result)
        ELSE
        LET data_length == get_u32_le(file_contents, i_len)
            i_foot == i_data + data_length - 1
        IN  IF data_length = 0 THEN DecodeEnd("panic", "data", i_data, result)
            ELSE IF i_foot > len THEN DecodeEnd("panic", "data", len, result)
            ELSE IF i_foot >= len THEN DecodeEnd("panic", "footer", i_foot, result)
            ELSE IF file_contents[i_foot + 1] # 123
            THEN DecodeEnd("exit", "Invalid footer symbol", i_foot, result)
            ELSE generate_entries_loop(file_contents, i_foot + 1,
                     Append(result,
                            [tag |-> get_string(file_contents, i_tag, tag_length),
                             data |-> SubSeq(file_contents, i_data + 1, i_foot)]))

\* generate_entries with an exit() that returns: the entries read up to the bad
\* header or footer are handed on
generate_entries_no_exit(file_contents) ==
    LET d == generate_entries_loop(file_contents, 0, <<>>)
    IN  IF d.outcome = "exit" THEN DecodeEnd("ok", "", d.at, d.result) ELSE d

\* main.rs:85-119
generate_entries(file_contents) == generate_entries_loop(file_contents, 0, <<>>)

\* main.rs:131-140, the bytes written for one entry
EntryBytes(e) ==
    <<126>> \o <<Len(e.tag) % 256>> \o e.tag
            \o mk_u32_le(Len(e.data) + 1) \o e.data \o <<123>>

\* main.rs:130-143, the bytes save_new_items_file writes
RECURSIVE SavedBytes(_)
SavedBytes(es) ==
    IF Len(es) = 0 THEN <<>>
    ELSE EntryBytes(Head(es)) \o SavedBytes(Tail(es))

\* ------------------------------------------------------ landfill classifier

\* main.rs:149-167
is_in_landfill(entry) ==
    IF Len(entry.data) < 18 THEN FALSE
    ELSE \A i \in 6..17 : entry.data[i + 1] = landfill_pos[i - 6 + 1]

\* ------------------------------------------------ group renumbering engine

\* main.rs:401-402, the test that makes the rename loop skip an entry
IsSkipped(tag) ==
    \/ Contains(dont_touch_entries, tag)
    \/ \E k \in DOMAIN blacklist : StartsWith(tag, blacklist[k])

\* the landfill test with the allowlist looked up by tag, as main.rs:401 does,
\* instead of by item id
IsLocatedInLandfill_by_tag(e) ==
    /\ is_in_landfill(e)
    /\ ~Contains(dont_touch_entries, e.tag)
    /\ \A k \in DOMAIN blacklist : ~StartsWith(e.tag, blacklist[k])

\* main.rs:274-278, the test that puts an entry's item id on located_in_landfill
IsLocatedInLandfill(e) ==
    /\ is_in_landfill(e)
    /\ ~Contains(dont_touch_entries, get_item_id(e.tag))
    /\ \A k \in DOMAIN blacklist : ~StartsWith(e.tag, blacklist[k])

\* main.rs:270-281, located_in_landfill after the loop over entries k..
RECURSIVE landfill_loop(_, _)
landfill_loop(es, k) ==
    IF k > Len(es) THEN <<>>
    ELSE (IF IsLocatedInLandfill(es[k]) THEN <<get_item_id(es[k].tag)>> ELSE <<>>)
         \o landfill_loop(es, k + 1)

\* main.rs:284-290, the positions (in entries) of the entries pushed to res
RECURSIVE kept_loop(_, _, _)
kept_loop(es, located, k) ==
    IF k > Len(es) THEN <<>>
    ELSE (IF ~Contains(located, get_item_id(es[k].tag)) THEN <<k>> ELSE <<>>)
         \o kept_loop(es, located, k + 1)

\* main.rs:373, the test that counts an entry for a group
IsCounted(tag, g) == StartsWith(tag, Groups[g].tagname) /\ EndsWith(tag, Transform)

\* main.rs:368-378, count and max of every group after the counting loop
count_items(res) ==
    [g \in DOMAIN Groups |->
        LET c == Cardinality({k \in DOMAIN res : IsCounted(res[k].tag, g)})
        IN  [count |-> c, max |-> c]]

\* main.rs:382-389
reduce_counters(item_counts) ==
    [g \in DOMAIN Groups |->
        IF item_counts[g].count >= 1 /\ Groups[g].has_default_zero_item
        THEN [count |-> item_counts[g].count - 1, max |-> item_counts[g].max - 1]
        ELSE item_counts[g]]

\* the first Map whose oldid is id (main.rs:415), 0 when there is none
FindMap(map, id) ==
    LET hit == {k \in DOMAIN map : map[k].oldid = id}
    IN  IF hit = {} THEN 0 ELSE CHOOSE k \in hit : \A j \in hit : k <= j

\* main.rs:408-412: the first group from g on that is not skipped for tag (its
\* tagid is another text) and whose tagname tag starts with; 0 when there is none
NextGroup(tag, g) ==
    LET hit == {x \in g..Len(Groups) :
                    Groups[x].tagid # tag /\ StartsWith(tag, Groups[x].tagname)}
    IN  IF hit = {} THEN 0 ELSE CHOOSE x \in hit : \A y \in hit : x <= y

\* main.rs:407-431, the loop over the groups g.. for one entry: the groups up to
\* NextGroup leave everything as it is
RECURSIVE rename_entry(_, _, _, _)
rename_entry(tag, g, item_counts, map) ==
    LET h == NextGroup(tag, g) IN
    IF h = 0 THEN [tag |-> tag, item_counts |-> item_counts, map |-> map]
    ELSE
    LET id == get_item_id(tag)
        m == FindMap(map, id)
    IN  IF m # 0
        THEN rename_entry(Replace(tag, map[m].oldid, map[m].newid), h + 1, item_counts, map)
        ELSE
        LET newtag == tag_set_new_count(tag, item_counts[h].count)
        IN  rename_entry(newtag, h + 1,
                [item_counts EXCEPT ![h].count = IF @ > 0 THEN @ - 1 ELSE @],
                Append(map, [oldid |-> id, newid |-> get_item_id(newtag)]))

\* main.rs:399-432, the loop over the entries k.. of res
RECURSIVE rename_items(_, _, _, _)
rename_items(res, k, item_counts, map) ==
    IF k > Len(res) THEN [res |-> res, item_counts |-> item_counts, map |-> map]
    ELSE IF IsSkipped(res[k].tag) THEN rename_items(res, k + 1, item_counts, map)
    ELSE LET r == rename_entry(res[k].tag, 1, item_counts, map)
         IN  rename_items([res EXCEPT ![k].tag = r.tag], k + 1, r.item_counts, r.map)

\* the group whose tagid is tag (main.rs:444), 0 when there is none; the tagids
\* are pairwise different
CounterGroup(tag) ==
    IF \E g \in DOMAIN Groups : Groups[g].tagid = tag
    THEN CHOOSE g \in DOMAIN Groups : Groups[g].tagid = tag ELSE 0

\* main.rs:451-453: e.data[pos] with pos in 5..9 is out of bounds for a shorter data
PatchPanics(res) ==
    \E k \in DOMAIN res : CounterGroup(res[k].tag) # 0 /\ Len(res[k].data) < 9

\* the counter loop with the u32 written one byte early (pos in 4..8)
set_counters_from_4(res, item_counts) ==
    [k \in DOMAIN res |->
        LET g == CounterGroup(res[k].tag)
        IN  IF g = 0 THEN res[k]
            ELSE [res[k] EXCEPT !.data =
                    SubSeq(@, 1, 4) \o mk_u32_le(item_counts[g].max) \o From(@, 8)]]

\* main.rs:442-456, res after the counter loop (when no index is out of bounds)
set_counters(res, item_counts) ==
    [k \in DOMAIN res |->
        LET g == CounterGroup(res[k].tag)
        IN  IF g = 0 THEN res[k]
            ELSE [res[k] EXCEPT !.data =
                    SubSeq(@, 1, 5) \o mk_u32_le(item_counts[g].max) \o From(@, 9)]]

\* main.rs:230-459: what clean_entries leaves.  kept is the position in entries
\* of every element of res, kept beside res to tell which entry became which.
clean_entries(es) ==
    LET located_in_landfill == landfill_loop(es, 1)
        kept == kept_loop(es, located_in_landfill, 1)
        res == [j \in DOMAIN kept |-> es[kept[j]]]
        renamed == rename_items(res, 1, reduce_counters(count_items(res)), <<>>)
        item_counts == renamed.item_counts
    IN  [panic |-> PatchPanics(renamed.res),
         res |-> IF PatchPanics(renamed.res) THEN renamed.res
                 ELSE set_counters(renamed.res, item_counts),
         kept |-> kept,
         located_in_landfill |-> located_in_landfill,
         item_counts |-> item_counts,
         map |-> renamed.map]

\* ------------------------------------------------------------------ inputs

\* every sequence over S of length at most n
SeqsUpTo(S, n) == UNION {[1..k -> S] : k \in 0..n}

\* a Transform payload as in the example of main.rs:152, lying at the landfill
\* position (bytes 6..18 are landfill_pos)
LandfillData == <<255, 118, 250, 122, 9, 4>> \o landfill_pos

\* the same payload with the last byte of the position changed
PlainData == SubSeq(LandfillData, 1, 17) \o <<197>>

\* the same payload cut to 17 bytes
ShortData == SubSeq(LandfillData, 1, 17)

\* a counter payload as in the example of main.rs:448 (FF 56 08 A8 E2, then the u32)
CounterData == <<255, 86, 8, 168, 226, 54, 0, 0, 0>>

\* a counter payload that ends before the u32
ShortCounterData == <<255, 86, 8, 168, 226>>

\* the records a run's items.txt is put together from
RecordPool ==
    << [tag |-> <<112,105,107,101,120,51,84,114,97,110,115,102,111,114,109>>, data |-> LandfillData],   \* 1: 'pikex3Transform'
       [tag |-> <<112,105,107,101,120,51,84,114,97,110,115,102,111,114,109>>, data |-> PlainData],   \* 2: 'pikex3Transform'
       [tag |-> <<112,105,107,101,120,51,67,111,110,100,105,116,105,111,110>>, data |-> PlainData],   \* 3: 'pikex3Condition'
       [tag |-> <<112,105,107,101,120,50,84,114,97,110,115,102,111,114,109>>, data |-> PlainData],   \* 4: 'pikex2Transform'
       [tag |-> <<112,105,107,101,120,49,84,114,97,110,115,102,111,114,109>>, data |-> ShortData],   \* 5: 'pikex1Transform'
       [tag |-> <<112,105,107,101,120,73,68>>, data |-> CounterData],   \* 6: 'pikexID'
       [tag |-> <<112,105,107,101,120,73,68>>, data |-> ShortCounterData],   \* 7: 'pikexID'
       [tag |-> <<115,97,117,115,97,103,101,115,120,48,84,114,97,110,115,102,111,114,109>>, data |-> LandfillData],   \* 8: 'sausagesx0Transform'
       [tag |-> <<115,97,117,115,97,103,101,115,120,49,84,114,97,110,115,102,111,114,109>>, data |-> PlainData],   \* 9: 'sausagesx1Transform'
       [tag |-> <<83,97,117,115,97,103,101,115,120,73,68>>, data |-> CounterData],   \* 10: 'SausagesxID'
       [tag |-> <<109,105,108,107,120,84,114,97,110,115,102,111,114,109>>, data |-> LandfillData],   \* 11: 'milkxTransform'
       [tag |-> <<114,50,48,32,98,97,116,116,101,114,121,49,84,114,97,110,115,102,111,114,109>>, data |-> LandfillData],   \* 12: 'r20 battery1Transform'
       [tag |-> <<114,50,48,32,98,111,120,49,84,114,97,110,115,102,111,114,109>>, data |-> LandfillData],   \* 13: 'r20 box1Transform'
       [tag |-> <<115,112,114,97,121,99,97,110,48,49,52,53,84,114,97,110,115,102,111,114,109>>, data |-> PlainData],   \* 14: 'spraycan0145Transform'
       [tag |-> <<115,112,114,97,121,99,97,110,48,49,52,54,84,114,97,110,115,102,111,114,109>>, data |-> PlainData],   \* 15: 'spraycan0146Transform'
       [tag |-> <<83,112,114,97,121,99,97,110,48,49,73,68>>, data |-> CounterData],   \* 16: 'Spraycan01ID'
       [tag |-> <<115,112,97,114,107,32,112,108,117,103,32,98,111,120,51,84,114,97,110,115,102,111,114,109>>, data |-> PlainData],   \* 17: 'spark plug box3Transform'
       [tag |-> <<115,112,97,114,107,112,108,117,103,98,111,120,73,68>>, data |-> CounterData] >>   \* 18: 'sparkplugboxID'

\* one record of items.txt as the game writes it (the format read at
\* main.rs:92-114): header, tag length, tag bytes, u32 length, payload, footer
RawRecord(tag_bytes, payload) ==
    <<126, Len(tag_bytes)>> \o tag_bytes \o mk_u32_le(Len(payload) + 1) \o payload \o <<123>>

\* the file holding the records rs, each a [tag, data] of raw bytes
RECURSIVE RawFile(_)
RawFile(rs) ==
    IF Len(rs) = 0 THEN <<>>
    ELSE RawRecord(Head(rs).tag, Head(rs).data) \o RawFile(Tail(rs))

\* the records of RecordPool that act on each other: the pikes with their
\* counter and a blocklisted item, the sausages and the milk, the "r20 ..."
\* items and the spray cans, the spark plug boxes with their counter
Families == {(1..7) \cup {12}, 8..11, 12..16, 17..18}

\* files of up to MaxRecords records of one family, and files of up to
\* MaxMixedRecords records of any kind
PoolFiles ==
    LET File(ix) == RawFile([k \in DOMAIN ix |-> RecordPool[ix[k]]])
    IN  UNION {{File(ix) : ix \in SeqsUpTo(fam, MaxRecords)} : fam \in Families}
            \cup {File(ix) : ix \in SeqsUpTo(DOMAIN RecordPool, MaxMixedRecords)}

\* small records: an empty, an ASCII and a non-ASCII (0xE4) tag; an empty payload
\* and a payload that is the footer byte
CodecRecords(tags) == {[tag |-> t, data |-> d] : t \in tags, d \in {<<>>, <<123>>}}

\* well-formed files of up to MaxCodecRecords small records
CodecFiles == {RawFile(rs) : rs \in SeqsUpTo(CodecRecords({<<>>, <<97>>, <<228>>}), MaxCodecRecords)}

\* a file cut short, or with one byte replaced.  Every byte of these files is
\* below 0x80, so that a length field read at any offset stays below 2^31.
DamagedFiles ==
    LET base == {RawFile(rs) : rs \in SeqsUpTo(CodecRecords({<<>>, <<97>>}), MaxCodecRecords)}
    IN  UNION {   {SubSeq(f, 1, k) : k \in 0..(Len(f) - 1)}
              \cup {[f EXCEPT ![k] = v] : k \in DOMAIN f, v \in {0, 2, 126}} : f \in base}

\* the contents of items.txt a run may start from
InputFiles == PoolFiles \cup CodecFiles \cup DamagedFiles

\* the tags the tag grammar is run on: an optional "spraycan" and up to MaxTagLen
\* bytes around the digits ('/', '0', '9', ':', 'x'), the tags of RecordPool and
\* the tag of the comment at main.rs:201
TagInputs ==
    {p \o w : p \in {<<>>, spraycan}, w \in SeqsUpTo({47, 48, 57, 58, 120}, MaxTagLen)}
        \cup {RecordPool[k].tag : k \in DOMAIN RecordPool}
        \cup {<<115,97,117,115,97,103,101,115,120,49,49>> \o Transform,   \* "sausagesx11Transform"
              <<115,97,117,115,97,103,101,115,120,49,49>>}                \* "sausagesx11"

\* ------------------------------------------------------------------- state

VARIABLES
    pc,          \* where main stands, or how the run ended ("exit", "panic")
    ended_in,    \* the function a failed run ended in, "" otherwise
    items_txt,   \* the file items.txt
    items00_txt, \* the backup items00.txt (<<>>: none yet)
    items_file,  \* main's items_file (main.rs:531)
    entries,     \* main's entries (main.rs:537, 538)
    decoded,     \* how generate_entries ended (see DecodeEnd)
    cleaned,     \* what clean_entries was given and what it left (see clean_entries)
    e_tag,       \* tag grammar: the tag handed in
    new_count,   \* tag grammar: the n handed to tag_set_new_count
    item_id,     \* tag grammar: the result of get_item_id
    new_tag      \* tag grammar: e.tag after tag_set_new_count

vars == <<pc, ended_in, items_txt, items00_txt, items_file, entries, decoded, cleaned,
          e_tag, new_count, item_id, new_tag>>

mainVars == <<ended_in, items_txt, items00_txt, items_file, entries, decoded, cleaned>>

tagVars == <<e_tag, new_count, item_id, new_tag>>

NotDecoded == DecodeEnd("none", "", 0, <<>>)

NotCleaned ==
    [input |-> <<>>, panic |-> FALSE, res |-> <<>>, kept |-> <<>>,
     located_in_landfill |-> <<>>, item_counts |-> <<>>, map |-> <<>>]

NoMain ==
    /\ ended_in = ""
    /\ items_txt = <<>>
    /\ items00_txt = <<>>
    /\ items_file = <<>>
    /\ entries = <<>>
    /\ decoded = NotDecoded
    /\ cleaned = NotCleaned

NoTag ==
    /\ e_tag = <<>>
    /\ new_count = 0
    /\ item_id = <<>>
    /\ new_tag = <<>>

\* the program is started beside an items.txt
Init ==
    /\ pc = "main"
    /\ ended_in = ""
    /\ items_txt \in InputFiles
    /\ items00_txt = <<>>
    /\ items_file = <<>>
    /\ entries = <<>>
    /\ decoded = NotDecoded
    /\ cleaned = NotCleaned
    /\ NoTag

\* ------------------------------------------------------------------- main

\* main.rs:531-534 (a read error is left to the file system)
ReadItems ==
    /\ pc = "main"
    /\ items_file' = items_txt
    /\ pc' = "read"
    /\ UNCHANGED <<ended_in, items_txt, items00_txt, entries, decoded, cleaned>>
    /\ UNCHANGED tagVars

\* main.rs:536, 486: items.txt is copied to items00.txt (the older backups move up)
BackupItemsFile ==
    /\ pc = "read"
    /\ items00_txt' = items_txt
    /\ pc' = "backed_up"
    /\ UNCHANGED <<ended_in, items_txt, items_file, entries, decoded, cleaned>>
    /\ UNCHANGED tagVars

\* main.rs:537: the call returns, or it ends the process, by exit() at main.rs:94
\* or 112 or by a panic
GenerateEntries ==
    /\ pc = "backed_up"
    /\ decoded' = generate_entries(items_file)
    /\ IF decoded'.outcome = "ok"
       THEN /\ entries' = decoded'.result
            /\ pc' = "decoded"
            /\ UNCHANGED ended_in
       ELSE /\ pc' = decoded'.outcome
            /\ ended_in' = "generate_entries"
            /\ UNCHANGED entries
    /\ UNCHANGED <<items_txt, items00_txt, items_file, cleaned>>
    /\ UNCHANGED tagVars

\* main.rs:538: the call returns, or it panics at main.rs:452
CleanEntries ==
    /\ pc = "decoded"
    /\ cleaned' = [input |-> entries] @@ clean_entries(entries)
    /\ IF ~cleaned'.panic
       THEN /\ entries' = cleaned'.res
            /\ pc' = "cleaned"
            /\ UNCHANGED ended_in
       ELSE /\ pc' = "panic"
            /\ ended_in' = "clean_entries"
            /\ UNCHANGED entries
    /\ UNCHANGED <<items_txt, items00_txt, items_file, decoded>>
    /\ UNCHANGED tagVars

\* main.rs:539 (an I/O error is left to the file system)
SaveNewItemsFile ==
    /\ pc = "cleaned"
    /\ items_txt' = SavedBytes(entries)
    /\ pc' = "saved"
    /\ UNCHANGED <<ended_in, items00_txt, items_file, entries, decoded, cleaned>>
    /\ UNCHANGED tagVars

Next ==
    \/ ReadItems
    \/ BackupItemsFile
    \/ GenerateEntries
    \/ CleanEntries
    \/ SaveNewItemsFile

Spec == Init /\ [][Next]_vars

\* ------------------------------------------------- the tag grammar by itself

InitTag ==
    /\ pc = "tag"
    /\ NoMain
    /\ e_tag \in TagInputs
    /\ new_count \in 0..MaxCount
    /\ item_id = <<>>
    /\ new_tag = <<>>

\* a call of get_item_id(&e.tag), as at main.rs:272, 286, 414
GetItemId ==
    /\ pc = "tag"
    /\ item_id' = get_item_id(e_tag)
    /\ pc' = "item_id"
    /\ UNCHANGED <<e_tag, new_count, new_tag>>
    /\ UNCHANGED mainVars

\* a call of tag_set_new_count(e, n), as at main.rs:423
TagSetNewCount ==
    /\ pc = "tag"
    /\ new_tag' = tag_set_new_count(e_tag, new_count)
    /\ pc' = "new_count"
    /\ UNCHANGED <<e_tag, new_count, item_id>>
    /\ UNCHANGED mainVars

NextTag == GetItemId \/ TagSetNewCount

SpecTag == InitTag /\ [][NextTag]_vars

\* ------------------------------------------------------------- properties
\* What the properties speak of, stated without the code's loops.

\* the value of 4 little-endian bytes
LittleEndian(b) == b[1] + 256 * b[2] + 65536 * b[3] + 16777216 * b[4]

\* the 0-based end (one past the footer) of a well-formed record starting at
\* 0-based offset i of buf: 0x7E, tag length, tag, u32 L >= 1, L - 1 payload
\* bytes, 0x7B; -1 when no well-formed record starts there
RecordEnd(buf, i) ==
    IF i + 2 > Len(buf) \/ buf[i + 1] # 126 THEN -1
    ELSE LET l == i + 2 + buf[i + 2] IN
         IF l + 4 > Len(buf) THEN -1
         ELSE LET L == LittleEndian(SubSeq(buf, l + 1, l + 4)) IN
              IF L < 1 \/ l + 4 + L > Len(buf) THEN -1
              ELSE IF buf[l + 4 + L] # 123 THEN -1 ELSE l + 4 + L

\* the number of well-formed records buf holds from offset i up to the first
\* offset where none starts
RECURSIVE LeadingRecords(_, _)
LeadingRecords(buf, i) ==
    IF i >= Len(buf) \/ RecordEnd(buf, i) = -1 THEN 0
    ELSE 1 + LeadingRecords(buf, RecordEnd(buf, i))

\* buf is a concatenation of well-formed records
RECURSIVE WellFormedFrom(_, _)
WellFormedFrom(buf, i) ==
    \/ i = Len(buf)
    \/ /\ i < Len(buf)
       /\ RecordEnd(buf, i) # -1
       /\ WellFormedFrom(buf, RecordEnd(buf, i))

WellFormed(buf) == WellFormedFrom(buf, 0)

HasDigit(tag) == \E k \in DOMAIN tag : IsDigit(tag[k])

\* the 1-based position of the first digit of a tag that has one
DigitStart(tag) == CHOOSE k \in DOMAIN tag : IsDigit(tag[k]) /\ \A j \in 1..(k - 1) : ~IsDigit(tag[j])

\* the 1-based position of the last digit of the first digit run
DigitEnd(tag) ==
    CHOOSE k \in DigitStart(tag)..Len(tag) :
        /\ \A j \in DigitStart(tag)..k : IsDigit(tag[j])
        /\ k = Len(tag) \/ ~IsDigit(tag[k + 1])

TextBefore(tag) == IF HasDigit(tag) THEN SubSeq(tag, 1, DigitStart(tag) - 1) ELSE tag

TextAfter(tag) == IF HasDigit(tag) THEN SubSeq(tag, DigitEnd(tag) + 1, Len(tag)) ELSE <<>>

\* the first digit run of a tag, <<>> when it has none
DigitRun(tag) == IF HasDigit(tag) THEN SubSeq(tag, DigitStart(tag), DigitEnd(tag)) ELSE <<>>

\* a tag's text through its first digit run
ThroughDigits(tag) == IF HasDigit(tag) THEN SubSeq(tag, 1, DigitEnd(tag)) ELSE tag

\* the item identity of the specification: the text through the first digit run,
\* a "spraycan" tag's run being cut after its second digit
Identity(tag) ==
    IF HasDigit(tag) /\ StartsWith(tag, spraycan) /\ DigitEnd(tag) > DigitStart(tag) + 1
    THEN SubSeq(tag, 1, DigitStart(tag) + 1)
    ELSE ThroughDigits(tag)

\* the number a digit run reads as
RECURSIVE DecimalValue(_)
DecimalValue(d) ==
    IF Len(d) = 0 THEN 0 ELSE 10 * DecimalValue(SubSeq(d, 1, Len(d) - 1)) + (d[Len(d)] - 48)

InAllowlist(t) == \E k \in DOMAIN dont_touch_entries : dont_touch_entries[k] = t

HasBlockedPrefix(tag) == \E k \in DOMAIN blacklist : StartsWith(tag, blacklist[k])

\* a protected record: its tag is in the allowlist or starts with a blocklisted prefix
IsProtected(tag) == InAllowlist(tag) \/ HasBlockedPrefix(tag)

\* a payload of at least 18 bytes whose bytes 6..18 are the sentinel
LandfillClassified(r) == Len(r.data) >= 18 /\ SubSeq(r.data, 7, 18) = landfill_pos

\* the place in the output of the input record i of clean_entries, 0 when dropped
OutputOf(i) ==
    IF \E j \in DOMAIN cleaned.kept : cleaned.kept[j] = i
    THEN CHOOSE j \in DOMAIN cleaned.kept : cleaned.kept[j] = i ELSE 0

\* the output records counted for group g: prefix and "Transform"
Population(g) ==
    Cardinality({j \in DOMAIN entries :
        StartsWith(entries[j].tag, Groups[g].tagname) /\ EndsWith(entries[j].tag, Transform)})

\* the input records of clean_entries that are renumbered for group g and survive
Renumbered(g) ==
    {i \in DOMAIN cleaned.input :
        /\ OutputOf(i) # 0
        /\ StartsWith(cleaned.input[i].tag, Groups[g].tagname)
        /\ ~IsProtected(cleaned.input[i].tag)
        /\ cleaned.input[i].tag # Groups[g].tagid}

\* the numeric ID the output carries for input record i
NewId(i) == DecimalValue(DigitRun(entries[OutputOf(i)].tag))

\* C1: round trip. For every well-formed buffer, the bytes save_new_items_file
\* writes for the entries generate_entries produced are the buffer itself.
RoundTrip ==
    (pc = "decoded" /\ WellFormed(items_file)) => SavedBytes(entries) = items_file

\* C2: protection. Every input record of clean_entries whose tag is in the
\* allowlist or starts with a blocklisted prefix is in the output, its tag
\* unchanged, whatever lies in the landfill.
ProtectionInvariant ==
    pc = "cleaned" =>
        \A i \in DOMAIN cleaned.input :
            IsProtected(cleaned.input[i].tag) =>
                /\ OutputOf(i) # 0
                /\ entries[OutputOf(i)].tag = cleaned.input[i].tag

\* C3: group population. After clean_entries, for every group whose counter
\* record is in the output, bytes 5..9 of the counter hold the group's max, and
\* the output records with the group's prefix that end with "Transform" number
\* max plus the baseline adjustment (1 for a default-zero group with a
\* population of at least 1).
GroupPopulation ==
    pc = "cleaned" =>
        \A g \in DOMAIN Groups : \A j \in DOMAIN entries :
            entries[j].tag = Groups[g].tagid =>
                /\ LittleEndian(SubSeq(entries[j].data, 6, 9)) = cleaned.item_counts[g].max
                /\ Population(g) = cleaned.item_counts[g].max
                        + (IF Groups[g].has_default_zero_item /\ Population(g) >= 1
                           THEN 1 ELSE 0)

\* C4: sibling consistency. Two surviving, unprotected records with a group's
\* prefix and the same item identity carry the same new number after
\* clean_entries, each keeping its own text after the digits.
SiblingConsistency ==
    pc = "cleaned" =>
        \A g \in DOMAIN Groups : \A a, b \in DOMAIN cleaned.input :
            LET ta == cleaned.input[a].tag
                tb == cleaned.input[b].tag
            IN  (/\ OutputOf(a) # 0 /\ OutputOf(b) # 0
                 /\ ~IsProtected(ta) /\ ~IsProtected(tb)
                 /\ StartsWith(ta, Groups[g].tagname) /\ StartsWith(tb, Groups[g].tagname)
                 /\ Identity(ta) = Identity(tb))
                => /\ DigitRun(entries[OutputOf(a)].tag) = DigitRun(entries[OutputOf(b)].tag)
                   /\ TextAfter(entries[OutputOf(a)].tag) = TextAfter(ta)
                   /\ TextAfter(entries[OutputOf(b)].tag) = TextAfter(tb)

\* C5: dense renumbering. After clean_entries, for every group whose counter
\* record is in the output, the k renumbered instances (the different identities
\* among the surviving, unprotected records with the group's prefix, the counter
\* aside) carry k different IDs, the range of k numbers that ends at the value
\* written to the counter, the instance met first carrying the highest.
DenseRenumbering ==
    pc = "cleaned" =>
        \A g \in DOMAIN Groups :
            (\E j \in DOMAIN entries : entries[j].tag = Groups[g].tagid) =>
                LET R == Renumbered(g)
                    id(i) == Identity(cleaned.input[i].tag)
                    k == Cardinality({id(i) : i \in R})
                    max == cleaned.item_counts[g].max
                IN  /\ \A a, b \in R : (id(a) = id(b)) <=> (NewId(a) = NewId(b))
                    /\ {NewId(i) : i \in R} = (max - k + 1)..max
                    /\ \A a, b \in R : (a < b /\ id(a) # id(b)
                                        /\ \A c \in R : c < b => id(c) # id(b))
                                       => NewId(a) > NewId(b)

\* how generate_entries ends a run on a file that is not well-formed
EndsRun == pc \in {"exit", "panic"} /\ ended_in = "generate_entries"

\* C6: abort on malformed input. When items.txt is not a well-formed record
\* stream, the run ends in generate_entries, with the well-formed records before
\* the bad one decoded and none after it, nothing is handed on to clean_entries
\* or save_new_items_file, and items.txt keeps its contents.
AbortOnMalformed ==
    (pc \notin {"main", "read", "backed_up"} /\ ~WellFormed(items_file)) =>
        /\ EndsRun
        /\ Len(decoded.result) = LeadingRecords(items_file, 0)
        /\ entries = <<>>
        /\ cleaned = NotCleaned
        /\ items_txt = items_file

\* C6, witness: a run that ended at a bad header after one good record
AbortOnMalformedWitness ==
    /\ pc = "exit"
    /\ ~WellFormed(items_file)
    /\ Len(decoded.result) = 1
    /\ decoded.msg = "Invalid header symbol"

\* C7 as stated: for a tag that does not begin with "spraycan", get_item_id
\* returns the digit-free text before the first digit run (the whole tag when it
\* has no digit).
IdentityBeforeDigits ==
    (pc = "item_id" /\ ~StartsWith(e_tag, spraycan)) => item_id = TextBefore(e_tag)

\* C7, amended: for a tag that does not begin with "spraycan", get_item_id
\* returns the tag's text through the end of its first digit run (the whole tag
\* when it has no digit).
IdentityThroughDigits ==
    (pc = "item_id" /\ ~StartsWith(e_tag, spraycan)) => item_id = ThroughDigits(e_tag)

\* C7, witness: get_item_id("sausagesx11Transform") has returned "sausagesx11"
IdentityThroughDigitsWitness ==
    /\ pc = "item_id"
    /\ e_tag = <<115,97,117,115,97,103,101,115,120,49,49>> \o Transform
    /\ item_id = <<115,97,117,115,97,103,101,115,120,49,49>>

\* C8: suffix rewrite. For a tag with a digit, tag_set_new_count replaces the
\* first digit run by the decimal text of n and keeps the text before and after.
SuffixRewrite ==
    (pc = "new_count" /\ HasDigit(e_tag)) =>
        new_tag = TextBefore(e_tag) \o Decimal(new_count) \o TextAfter(e_tag)

\* C9: for a tag without a digit, tag_set_new_count leaves the tag unchanged.
NoDigitUnchanged ==
    (pc = "new_count" /\ ~HasDigit(e_tag)) => new_tag = e_tag

\* an input record of clean_entries that marks its identity for removal
Marks(r) == LandfillClassified(r) /\ ~InAllowlist(Identity(r.tag)) /\ ~HasBlockedPrefix(r.tag)

\* C10: identity-scoped removal. clean_entries drops exactly the input records
\* whose identity is the identity of an input record that is landfill-classified
\* with an identity outside the allowlist and a tag without blocklisted prefix;
\* every other input record is in the output, once.
IdentityScopedRemoval ==
    pc = "cleaned" =>
        /\ \A i \in DOMAIN cleaned.input :
              (OutputOf(i) = 0) <=>
                  \E m \in DOMAIN cleaned.input :
                      /\ Marks(cleaned.input[m])
                      /\ Identity(cleaned.input[m].tag) = Identity(cleaned.input[i].tag)
        /\ Len(entries) = Len(cleaned.kept)
        /\ \A j \in DOMAIN entries :
              /\ cleaned.kept[j] \in DOMAIN cleaned.input
              /\ \A h \in DOMAIN entries : cleaned.kept[h] = cleaned.kept[j] => h = j
              /\ Len(entries[j].data) = Len(cleaned.input[cleaned.kept[j]].data)

\* C10, witness: a landfill record was dropped together with a sibling that is
\* not in the landfill, while a landfill record with a blocklisted prefix was
\* kept
IdentityScopedRemovalWitness ==
    /\ pc = "cleaned"
    /\ \E i, m \in DOMAIN cleaned.input :
          /\ OutputOf(i) = 0 /\ OutputOf(m) = 0
          /\ LandfillClassified(cleaned.input[m]) /\ ~LandfillClassified(cleaned.input[i])
    /\ \E i \in DOMAIN cleaned.input :
          OutputOf(i) # 0 /\ LandfillClassified(cleaned.input[i])

\* a tag that is the counter tag (tagid) of a configured group
IsCounterTag(tag) == \E g \in DOMAIN Groups : Groups[g].tagid = tag

\* C11: frame of clean_entries. The output records are input records in their
\* original order, none twice; each has the payload length of its input record;
\* a payload byte differs from the input only at the (0-based) places 5..8 of a
\* record whose tag is a group's counter tag; a counter record keeps its tag.
FrameOfCleanEntries ==
    pc = "cleaned" =>
        /\ Len(entries) = Len(cleaned.kept)
        /\ \A j \in DOMAIN entries : cleaned.kept[j] \in DOMAIN cleaned.input
        /\ \A h, j \in DOMAIN entries : h < j => cleaned.kept[h] < cleaned.kept[j]
        /\ \A j \in DOMAIN entries :
              LET old == cleaned.input[cleaned.kept[j]]
                  new == entries[j]
              IN  /\ Len(new.data) = Len(old.data)
                  /\ \A p \in DOMAIN old.data :
                        new.data[p] # old.data[p] => (p \in 6..9 /\ IsCounterTag(new.tag))
                  /\ IsCounterTag(old.tag) => new.tag = old.tag

\* C11, witness: a record was dropped, a later record was renamed with its
\* payload kept, and a counter record had its u32 rewritten
FrameOfCleanEntriesWitness ==
    /\ pc = "cleaned"
    /\ \E i \in DOMAIN cleaned.input, j, c \in DOMAIN entries :
          /\ OutputOf(i) = 0
          /\ cleaned.kept[j] > i
          /\ entries[j].tag # cleaned.input[cleaned.kept[j]].tag
          /\ entries[j].data = cleaned.input[cleaned.kept[j]].data
          /\ IsCounterTag(entries[c].tag)
          /\ entries[c].data # cleaned.input[cleaned.kept[c]].data

\* the text of a tag after the prefix of group g
AfterPrefix(tag, g) == From(tag, Len(Groups[g].tagname))

\* an output record that carries a numeric ID of group g: its tag is the
\* group's prefix followed by a digit
CarriesIdOf(j, g) ==
    /\ StartsWith(entries[j].tag, Groups[g].tagname)
    /\ Len(AfterPrefix(entries[j].tag, g)) > 0
    /\ IsDigit(AfterPrefix(entries[j].tag, g)[1])

\* the numeric ID of group g in the tag of such a record
IdOf(j, g) == DecimalValue(DigitRun(AfterPrefix(entries[j].tag, g)))

\* the u32 in the (0-based) payload bytes 5..9 of output record c
CounterValue(c) == LittleEndian(SubSeq(entries[c].data, 6, 9))

\* C12: the counter covers every surviving ID. After clean_entries, for every
\* group whose counter record is in the output, the u32 in payload bytes 5..9
\* of the counter is at least the numeric ID in the tag of every output record
\* that starts with the group's prefix, the groups whose prefix starts with a
\* blocklisted prefix included.
CounterCoversIds ==
    pc = "cleaned" =>
        \A g \in DOMAIN Groups : \A c, j \in DOMAIN entries :
            (entries[c].tag = Groups[g].tagid /\ CarriesIdOf(j, g))
                => IdOf(j, g) <= CounterValue(c)

====
